---- MODULE Spec2Model ----
(***************************************************************************)
(* Model of lib/export.py: the exported, re-evaluable impact model          *)
(* (Param, Lambda, FunctionalUnit, Impact, Model, serialize_model,          *)
(* export_lca).                                                             *)
(*                                                                          *)
(* Python objects are records, dicts are functions (the parameter registry  *)
(* is a sequence, because the iteration order of that dict decides which    *)
(* entry of a lookup wins).  Expressions of the symbolic engine are kept in *)
(* the engine's canonical form, a sum of terms coef * sym * ... * sym; a    *)
(* compiled callable is its signature together with the body it computes.   *)
(***************************************************************************)
EXTENDS Integers, Sequences, FiniteSets, TLC

VARIABLES
    param_registry, \* _param_registry().all(): the declared parameters, in
                  \* order, names distinct
    hash_rev,     \* this process's iteration order of a set of names
    pc,           \* "start", "built" (export_lca returned), "failed" (it raised)
    model,        \* the Model export_lca returned; model.m.params is the dict
                  \* all_params, as the sequence of its values
    js,           \* serialize_model(model), once taken
    model2,       \* Model.from_json(js), once loaded
    js2,          \* serialize_model(model2), once taken
    call          \* the last call made (Model.evaluate, Lambda.evaluate or
                  \* Param.expand_values), its arguments and its outcome

vars == <<param_registry, hash_rev, pc, model, js, model2, js2, call>>

----------------------------------------------------------------------------
(* Bounds *)

MaxParams == 2

----------------------------------------------------------------------------
(* Python values: None, numbers (bool is a number: True is 1), strings.     *)

None == [k |-> "none", n |-> 0, s |-> ""]
Num(n) == [k |-> "num", n |-> n, s |-> ""]
Str(s) == [k |-> "str", n |-> 0, s |-> s]

Range(f) == {f[i] : i \in DOMAIN f}

Max(S) == CHOOSE m \in S : \A o \in S : o <= m

(* class ParamType(str, Enum) *)
BOOLEAN_T == "bool"
ENUM_T == "enum"
FLOAT_T == "float"

----------------------------------------------------------------------------
(* class Param *)

(* Param.__init__: the attribute values exists only for a truthy list.      *)
Param(name, type, unit, default, values) ==
    [name |-> name, type |-> type, default |-> default, unit |-> unit,
     hasValues |-> values # <<>>, values |-> values]

(* Param.__json__: the object's __dict__.                                   *)
Param__json__(self) == self

(* Param.from_json: cls called with the keys of js; values only if present. *)
Param_from_json(pjs) ==
    Param(pjs.name, pjs.type, pjs.unit, pjs.default,
          IF pjs.hasValues THEN pjs.values ELSE <<>>)

(* Param.from_ParamDef: values is read with getattr, None when absent.      *)
Param_from_ParamDef(paramDef) ==
    Param(paramDef.name, paramDef.type, paramDef.unit, paramDef.default,
          IF paramDef.hasValues THEN paramDef.values ELSE <<>>)

(* Param.expand_names *)
expand_names(self) ==
    IF self.type # ENUM_T
    THEN <<self.name>>
    ELSE [i \in 1..Len(self.values) |-> self.name \o "_" \o self.values[i]]

(* expand_values with the indicator test inverted.                          *)
expand_values_inverted(self, value) ==
    IF self.type # ENUM_T
    THEN [nm \in {self.name} |-> value]
    ELSE [nm \in Range(expand_names(self)) |->
            IF \E i \in 1..Len(self.values) :
                   /\ nm = self.name \o "_" \o self.values[i]
                   /\ Str(self.values[i]) # value
            THEN Num(1) ELSE Num(0)]

(* Param.expand_values: a dict comprehension over self.values; a slot named *)
(* by several entries keeps the last one written.                           *)
expand_values(self, value) ==
    IF self.type # ENUM_T
    THEN [nm \in {self.name} |-> value]
    ELSE [nm \in Range(expand_names(self)) |->
            LET last == Max({i \in 1..Len(self.values) :
                                nm = self.name \o "_" \o self.values[i]})
            IN IF value = Str(self.values[last]) THEN Num(1) ELSE Num(0)]

ParamByName(params, name) ==
    params[CHOOSE i \in 1..Len(params) : params[i].name = name]

ParamNames(params) == {params[i].name : i \in 1..Len(params)}

(* list(set(names)): the names in this process's set iteration order, which *)
(* the language leaves open; it is either the registry's order or its       *)
(* reverse, so that every pair of names is met in both orders.              *)
RECURSIVE ListUp(_, _, _)
ListUp(params, names, i) ==
    IF i > Len(params) THEN <<>>
    ELSE (IF params[i].name \in names THEN <<params[i].name>> ELSE <<>>)
         \o ListUp(params, names, i + 1)

Reverse(s) == [i \in 1..Len(s) |-> s[Len(s) + 1 - i]]

list_of_set(params, names) ==
    IF hash_rev THEN Reverse(ListUp(params, names, 1))
    ELSE ListUp(params, names, 1)

(* expand_param_names (defined by the module, called nowhere in it)         *)
RECURSIVE expand_param_names(_, _)
expand_param_names(params, param_names) ==
    IF param_names = <<>> THEN <<>>
    ELSE expand_names(ParamByName(params, Head(param_names)))
         \o expand_param_names(params, Tail(param_names))

Owners(params, nm) ==
    {i \in 1..Len(params) : nm \in Range(expand_names(params[i]))}

(* unexpand_param_names: the lookup is a dict comprehension over the        *)
(* registry in order, so the last owner of a name wins; a name without an   *)
(* owner raises KeyError (ok = FALSE).                                      *)
unexpand_param_names(params, expanded) ==
    IF \E nm \in expanded : Owners(params, nm) = {}
    THEN [ok |-> FALSE, names |-> <<>>]
    ELSE [ok |-> TRUE,
          names |-> list_of_set(params,
                       {params[Max(Owners(params, nm))].name : nm \in expanded})]

----------------------------------------------------------------------------
(* The symbolic engine (sympy), as far as this module uses it.              *)
(* An expression is a sequence of terms; a term is a coefficient and the    *)
(* sequence of the symbols it multiplies.                                   *)

Term(c, syms) == [coef |-> c, syms |-> syms]

(* sympy.Float(number): the constant expression                             *)
Float(n) == <<Term(n, <<>>)>>

(* expr.free_symbols, as the set of their names                             *)
free_symbols(e) == UNION {Range(e[i].syms) : i \in 1..Len(e)}

RECURSIVE Product(_, _)
Product(syms, env) ==
    IF syms = <<>> THEN 1 ELSE env[Head(syms)].n * Product(Tail(syms), env)

RECURSIVE Value(_, _)
Value(e, env) ==
    IF e = <<>> THEN 0
    ELSE Head(e).coef * Product(Head(e).syms, env) + Value(Tail(e), env)

(* Tokens of the text str(expr) prints and parse_expr reads.                *)
NumTok(n) == [t |-> "num", n |-> n, s |-> ""]
NameTok(s) == [t |-> "name", n |-> 0, s |-> s]
OpTok(s) == [t |-> "op", n |-> 0, s |-> s]

RECURSIVE StrSyms(_)
StrSyms(syms) ==
    IF Len(syms) = 1 THEN <<NameTok(syms[1])>>
    ELSE <<NameTok(syms[1]), OpTok("*")>> \o StrSyms(Tail(syms))

(* A coefficient 1 before symbols is not printed: x, not 1*x.               *)
StrTerm(t) ==
    IF t.syms = <<>> THEN <<NumTok(t.coef)>>
    ELSE IF t.coef = 1 THEN StrSyms(t.syms)
    ELSE <<NumTok(t.coef), OpTok("*")>> \o StrSyms(t.syms)

(* str(expr): the terms joined by +                                         *)
RECURSIVE SymStr(_)
SymStr(e) ==
    IF Len(e) = 1 THEN StrTerm(e[1])
    ELSE StrTerm(e[1]) \o <<OpTok("+")>> \o SymStr(Tail(e))

(* parse_expr(text): + separates terms, * separates the factors of a term;  *)
(* number factors multiply into the coefficient, names become symbols.      *)
RECURSIVE ParseFrom(_, _, _)
ParseFrom(toks, i, cur) ==
    IF i > Len(toks) THEN <<cur>>
    ELSE IF toks[i].t = "op" /\ toks[i].s = "+"
         THEN <<cur>> \o ParseFrom(toks, i + 1, Term(1, <<>>))
    ELSE IF toks[i].t = "num"
         THEN ParseFrom(toks, i + 1, Term(cur.coef * toks[i].n, cur.syms))
    ELSE IF toks[i].t = "name"
         THEN ParseFrom(toks, i + 1, Term(cur.coef, Append(cur.syms, toks[i].s)))
    ELSE ParseFrom(toks, i + 1, cur)

parse_expr(toks) == ParseFrom(toks, 1, Term(1, <<>>))

(* _lambdify(expr, expanded_params): a function of exactly these keyword    *)
(* arguments computing expr.                                                *)
Lambdify(e, names) == [args |-> names, body |-> e]

(* A call by keyword: Python raises TypeError on a missing or an unexpected  *)
(* keyword argument.                                                        *)
Call(lambd, kwargs) ==
    IF DOMAIN kwargs # lambd.args
    THEN [status |-> "error", err |-> "TypeError", n |-> 0]
    ELSE [status |-> "ok", err |-> "", n |-> Value(lambd.body, kwargs)]

----------------------------------------------------------------------------
(* class Lambda *)

(* What a Lambda is built from: a number, an expression, or a dict of       *)
(* expressions.                                                             *)
LitIn(n) == [kind |-> "lit", lit |-> n, e |-> <<>>, d |-> <<>>]
ExprIn(e) == [kind |-> "expr", lit |-> 0, e |-> e, d |-> <<>>]
DictIn(d) == [kind |-> "dict", lit |-> 0, e |-> <<>>, d |-> d]

(* Lambda.__init__; ok = FALSE when unexpand_param_names raised.            *)
Lambda(expr, params) ==
    IF expr.kind = "dict"
    THEN LET all_expanded_params ==
                 UNION {free_symbols(expr.d[key]) : key \in DOMAIN expr.d}
             un == unexpand_param_names(params, all_expanded_params)
         IN [ok |-> un.ok,
             params |-> un.names,
             lambd |-> [dict |-> TRUE,
                        fn |-> [key \in DOMAIN expr.d |->
                                   Lambdify(expr.d[key], all_expanded_params)]],
             expr |-> expr]
    ELSE LET e == IF expr.kind = "lit" THEN ExprIn(Float(expr.lit)) ELSE expr
             expanded_params == free_symbols(e.e)
             un == unexpand_param_names(params, expanded_params)
         IN [ok |-> un.ok,
             params |-> un.names,
             lambd |-> [dict |-> FALSE, fn |-> Lambdify(e.e, expanded_params)],
             expr |-> e]

(* dict.update: the right operand's entries win.                            *)
Update(f, g) ==
    [key \in DOMAIN f \cup DOMAIN g |-> IF key \in DOMAIN g THEN g[key] ELSE f[key]]

EmptyDict == [key \in {} |-> 0]

(* The loop of lines 72-75 over values.items(), in the dict's order.        *)
RECURSIVE Expand(_, _, _, _)
Expand(params, order, values, i) ==
    IF i = 0 THEN EmptyDict
    ELSE Update(Expand(params, order, values, i - 1),
                expand_values(ParamByName(params, order[i]), values[order[i]]))

LambdaFailure(err, values, expanded_values) ==
    [status |-> "error", err |-> err, values |-> values,
     expanded_values |-> expanded_values, dict |-> FALSE, n |-> 0, d |-> EmptyDict]

(* The calls of lines 78-81 on the expanded values.                         *)
Invoke(lambd, values, expanded_values) ==
    IF lambd.dict
    THEN IF \E key \in DOMAIN lambd.fn :
                Call(lambd.fn[key], expanded_values).status = "error"
         THEN LambdaFailure("TypeError", values, expanded_values)
         ELSE [status |-> "ok", err |-> "", values |-> values,
               expanded_values |-> expanded_values, dict |-> TRUE, n |-> 0,
               d |-> [key \in DOMAIN lambd.fn |->
                         Call(lambd.fn[key], expanded_values).n]]
    ELSE IF Call(lambd.fn, expanded_values).status = "error"
         THEN LambdaFailure("TypeError", values, expanded_values)
         ELSE [status |-> "ok", err |-> "", values |-> values,
               expanded_values |-> expanded_values, dict |-> FALSE,
               n |-> Call(lambd.fn, expanded_values).n, d |-> EmptyDict]

(* Lambda.evaluate without the filter of line 69: every override is taken,  *)
(* referenced or not.                                                       *)
Lambda_evaluate_unfiltered(self, params, param_values) ==
    LET defaults == [key \in Range(self.params) |-> ParamByName(params, key).default]
        values == Update(defaults, param_values)
        order == self.params \o list_of_set(params, DOMAIN param_values \ Range(self.params))
    IN IF \E key \in DOMAIN values : key \notin ParamNames(params)
       THEN LambdaFailure("KeyError", values, EmptyDict)
       ELSE Invoke(self.lambd, values, Expand(params, order, values, Len(order)))

(* Lambda.evaluate *)
Lambda_evaluate(self, params, param_values) ==
    LET defaults == [key \in Range(self.params) |-> ParamByName(params, key).default]
        values == Update(defaults,
                         [key \in DOMAIN param_values \cap Range(self.params) |->
                             param_values[key]])
    IN Invoke(self.lambd, values,
              Expand(params, self.params, values, Len(self.params)))

(* Lambda.__json__ *)
Lambda__json__(self) ==
    [params |-> self.params,
     expr |-> IF self.expr.kind = "dict"
              THEN [dict |-> TRUE,
                    text |-> [key \in DOMAIN self.expr.d |-> SymStr(self.expr.d[key])]]
              ELSE [dict |-> FALSE, text |-> SymStr(self.expr.e)]]

(* Lambda.from_json: the stored params are not read, the expression is      *)
(* parsed and the constructor run again.                                    *)
Lambda_from_json(ljs, params) ==
    IF ljs.expr.dict
    THEN Lambda(DictIn([key \in DOMAIN ljs.expr.text |-> parse_expr(ljs.expr.text[key])]),
                params)
    ELSE Lambda(ExprIn(parse_expr(ljs.expr.text)), params)

----------------------------------------------------------------------------
(* class FunctionalUnit, class Impact *)

FunctionalUnit(quantity, unit) == [quantity |-> quantity, unit |-> unit]

(* A string, wrapped in depth one-element tuples.                           *)
PyStr(s) == [depth |-> 0, s |-> s]
Tuple1(v) == [depth |-> v.depth + 1, s |-> v.s]

(* Impact.__init__: line 163 ends in a comma, so the name is stored as the  *)
(* one-element tuple holding the argument.                                  *)
Impact(name, unit) == [name |-> Tuple1(name), unit |-> unit]

----------------------------------------------------------------------------
(* class Model *)

Model(params, expressions, functional_units, impacts) ==
    [params |-> params, expressions |-> expressions,
     functional_units |-> functional_units, impacts |-> impacts]

Raise(err, at, keys) ==
    [status |-> "error", err |-> err, at |-> at, keys |-> keys,
     dict |-> FALSE, val |-> [num |-> 0, den |-> 1], vals |-> EmptyDict,
     unit |-> None]

(* Lines 215-218 without the test for None: the separator and the           *)
(* functional unit's unit are always appended.                              *)
ComposeUnitAlways(impact_unit, fu_unit) ==
    Str(impact_unit.s \o "/" \o fu_unit.s)

(* Lines 215-218: a new string; the Impact's own unit is not assigned.      *)
ComposeUnit(impact_unit, fu_unit) ==
    IF fu_unit # None
    THEN Str(impact_unit.s \o "/" \o fu_unit.s)
    ELSE impact_unit

(* Model.evaluate.  at and keys: the check that raised and the keys its     *)
(* message lists (line 198 lists the keys of impacts).                      *)
Model_evaluate(self, impact, functional_unit, axis, param_values) ==
    IF axis \notin DOMAIN self.expressions
    THEN Raise("Exception", "axis", DOMAIN self.impacts)
    ELSE IF impact \notin DOMAIN self.expressions[axis]
    THEN Raise("Exception", "impact", DOMAIN self.expressions[axis])
    ELSE IF impact \notin DOMAIN self.impacts
    THEN Raise("KeyError", "impacts", {})
    ELSE IF functional_unit \notin DOMAIN self.functional_units
    THEN Raise("KeyError", "functional_unit", {})
    ELSE
      LET lambd == self.expressions[axis][impact]
          impact_obj == self.impacts[impact]
          fu == self.functional_units[functional_unit]
          fu_val == Lambda_evaluate(fu.quantity, self.params, param_values)
          impacts == Lambda_evaluate(lambd, self.params, param_values)
          unit == ComposeUnit(impact_obj.unit, fu.unit)
      IN IF fu_val.status = "error" THEN Raise(fu_val.err, "quantity", {})
         ELSE IF impacts.status = "error" THEN Raise(impacts.err, "lambd", {})
         ELSE IF fu_val.dict THEN Raise("TypeError", "divide", {})
         ELSE IF fu_val.n = 0 THEN Raise("ZeroDivisionError", "divide", {})
         ELSE [status |-> "ok", err |-> "", at |-> "", keys |-> {},
               dict |-> impacts.dict,
               val |-> [num |-> impacts.n, den |-> fu_val.n],
               vals |-> [key \in DOMAIN impacts.d |->
                            [num |-> impacts.d[key], den |-> fu_val.n]],
               unit |-> unit]

(* serialize_model on a FunctionalUnit and on an Impact: their __dict__;    *)
(* a tuple has neither __json__ nor __dict__ and is returned as it is.      *)
serialize_FunctionalUnit(fu) ==
    [quantity |-> Lambda__json__(fu.quantity), unit |-> fu.unit]

serialize_Impact(impact) == [name |-> impact.name, unit |-> impact.unit]

(* serialize_model on a Model: Model.__json__ is its __dict__, four dicts   *)
(* that are serialized entry by entry.                                      *)
serialize_model(obj) ==
    [params |-> [i \in 1..Len(obj.params) |-> Param__json__(obj.params[i])],
     expressions |->
        [axis \in DOMAIN obj.expressions |->
            [method \in DOMAIN obj.expressions[axis] |->
                Lambda__json__(obj.expressions[axis][method])]],
     functional_units |->
        [key \in DOMAIN obj.functional_units |->
            serialize_FunctionalUnit(obj.functional_units[key])],
     impacts |->
        [key \in DOMAIN obj.impacts |-> serialize_Impact(obj.impacts[key])]]

(* Model.from_json reading every functional unit's quantity from the first  *)
(* expression of the total axis instead of its own entry.                   *)
Model_from_json_wrong_quantity(mjs) ==
    LET params == [i \in 1..Len(mjs.params) |-> Param_from_json(mjs.params[i])]
        first == CHOOSE method \in DOMAIN mjs.expressions["total"] : TRUE
    IN Model(params,
             [axis \in DOMAIN mjs.expressions |->
                 [method \in DOMAIN mjs.expressions[axis] |->
                     Lambda_from_json(mjs.expressions[axis][method], params)]],
             [key \in DOMAIN mjs.functional_units |->
                 FunctionalUnit(
                     Lambda_from_json(mjs.expressions["total"][first], params),
                     mjs.functional_units[key].unit)],
             [key \in DOMAIN mjs.impacts |->
                 Impact(mjs.impacts[key].name, mjs.impacts[key].unit)])

(* Model.from_json *)
Model_from_json(mjs) ==
    LET params == [i \in 1..Len(mjs.params) |-> Param_from_json(mjs.params[i])]
    IN Model(params,
             [axis \in DOMAIN mjs.expressions |->
                 [method \in DOMAIN mjs.expressions[axis] |->
                     Lambda_from_json(mjs.expressions[axis][method], params)]],
             [key \in DOMAIN mjs.functional_units |->
                 FunctionalUnit(
                     Lambda_from_json(mjs.functional_units[key].quantity, params),
                     mjs.functional_units[key].unit)],
             [key \in DOMAIN mjs.impacts |->
                 Impact(mjs.impacts[key].name, mjs.impacts[key].unit)])

(* Every Lambda of a Model was constructed (no constructor raised).         *)
Constructed(m) ==
    /\ \A axis \in DOMAIN m.expressions :
          \A method \in DOMAIN m.expressions[axis] : m.expressions[axis][method].ok
    /\ \A key \in DOMAIN m.functional_units : m.functional_units[key].quantity.ok

----------------------------------------------------------------------------
(* export_lca *)

(* round_expr: _round_expr on the expression, or on each value of a dict;   *)
(* the coefficients of this model are whole numbers, which rounding to      *)
(* num_digits significant digits leaves as they are.                        *)
round_expr(exp_or_dict, num_digits) == exp_or_dict

NumDigits == 3

(* None becomes the axis "total" (lines 295-296).                           *)
AxisKey(axis) == IF axis = None THEN "total" ELSE axis.s

(* export_lca; registry is what _param_registry().all() returns and        *)
(* lambdas[axis][method] the expression _preMultiLCAAlgebric returned, a    *)
(* SymDict already replaced by its dict.                                    *)
export_lca(registry, lambdas, functional_units, methods_dict, axes) ==
    LET params == [i \in 1..Len(registry) |-> Param_from_ParamDef(registry[i])]
        impacts_by_axis ==
            [axis \in {AxisKey(axes[i]) : i \in 1..Len(axes)} |->
                [method \in DOMAIN methods_dict |->
                    Lambda(round_expr(lambdas[axis][method], NumDigits), params)]]
        fus == [name \in DOMAIN functional_units |->
                   FunctionalUnit(Lambda(functional_units[name].quantity, params),
                                  functional_units[name].unit)]
        impacts == [key \in DOMAIN methods_dict |->
                       Impact(methods_dict[key].name, methods_dict[key].unit)]
    IN Model(params, impacts_by_axis, fus, impacts)

----------------------------------------------------------------------------
(* The inputs the actions draw from. *)

ParamDef(name, type, unit, default, hasValues, values) ==
    [name |-> name, type |-> type, unit |-> unit, default |-> default,
     hasValues |-> hasValues, values |-> values]

CandidateParamDefs ==
    { ParamDef("x", FLOAT_T, Str("kg"), Num(2), FALSE, <<>>),
      ParamDef("b", BOOLEAN_T, None, Num(1), FALSE, <<>>),
      ParamDef("p", ENUM_T, None, Str("A"), TRUE, <<"A", "B">>),
      ParamDef("p_A", FLOAT_T, None, Num(3), FALSE, <<>>) }

(* Registries: sequences of parameters with pairwise distinct names.        *)
Registries ==
    UNION { {r \in [1..n -> CandidateParamDefs] :
                \A i, j \in 1..n : i # j => r[i].name # r[j].name}
            : n \in 1..MaxParams }

ImpactExprs ==
    { Float(6),
      <<Term(3, <<"x">>)>>,
      <<Term(1, <<"p_A">>)>>,
      <<Term(1, <<"p_A">>), Term(2, <<"p_B">>)>>,
      <<Term(1, <<"b", "x">>), Term(4, <<>>)>> }

Scale(e, k) == [i \in 1..Len(e) |-> Term(e[i].coef * k, e[i].syms)]

(* What the inventory computation returns for an axis: one expression for   *)
(* no axis, a dict of expressions for an axis.                              *)
AxisLambdas(e, methods_dict) ==
    [axis \in {"total", "phase"} |->
        [method \in DOMAIN methods_dict |->
            IF axis = "total" THEN ExprIn(e)
            ELSE DictIn([key \in {"a", "b"} |->
                            IF key = "a" THEN e ELSE Scale(e, 2)])]]

MethodsDict == [key \in {"gwp"} |-> [name |-> PyStr("GWP100a"), unit |-> Str("kg")]]

FunctionalUnitInputs(two) ==
    [name \in (IF two THEN {"fu1", "fu2"} ELSE {"fu1"}) |->
        IF name = "fu1" THEN [quantity |-> LitIn(2), unit |-> Str("m2")]
        ELSE [quantity |-> ExprIn(Float(4)), unit |-> None]]

AxesInputs == { <<None>>, <<None, Str("phase")>> }

Dict1(k, v) == [key \in {k} |-> v]

ParamValues ==
    { EmptyDict,
      Dict1("x", Num(5)),
      Dict1("p", Str("B")),
      Dict1("p", Str("C")),
      Update(Dict1("x", Num(5)), Dict1("p", Str("B"))),
      Dict1("p_A", Num(7)) }

ExpandInputs == { Num(5), Str("A"), Str("B"), Str("C") }

ImpactArgs == {"gwp", "ap"}
FunctionalUnitArgs == {"fu1", "fu2"}
AxisArgs == {"total", "phase"}

----------------------------------------------------------------------------
(* The state machine *)

Unset == [set |-> FALSE]
NoCall == [op |-> "none"]

Init ==
    /\ param_registry \in Registries
    /\ hash_rev \in BOOLEAN
    /\ pc = "start"
    /\ model = Unset
    /\ js = Unset
    /\ model2 = Unset
    /\ js2 = Unset
    /\ call = NoCall

(* export_lca(system, functional_units, methods_dict, axes) returns a Model *)
(* or raises (a free symbol without an owner).                              *)
ExportLca ==
    /\ pc = "start"
    /\ \E e \in ImpactExprs, axes \in AxesInputs, two \in BOOLEAN :
          LET m == export_lca(param_registry, AxisLambdas(e, MethodsDict),
                              FunctionalUnitInputs(two), MethodsDict, axes)
          IN IF Constructed(m)
             THEN /\ model' = [set |-> TRUE, m |-> m]
                  /\ pc' = "built"
             ELSE /\ model' = model
                  /\ pc' = "failed"
    /\ UNCHANGED <<param_registry, hash_rev, js, model2, js2, call>>

(* model.evaluate(impact, functional_unit, axis, **param_values), on the    *)
(* exported Model or on the one read back.                                  *)
ModelEvaluate ==
    /\ call = NoCall
    /\ \E target \in {"model", "model2"}, impact \in ImpactArgs,
          functional_unit \in FunctionalUnitArgs, axis \in AxisArgs,
          param_values \in ParamValues :
          /\ IF target = "model" THEN model.set ELSE model2.set
          /\ call' = [op |-> "Model.evaluate", target |-> target,
                      impact |-> impact, functional_unit |-> functional_unit,
                      axis |-> axis, param_values |-> param_values,
                      out |-> Model_evaluate(
                                 IF target = "model" THEN model.m ELSE model2.m,
                                 impact, functional_unit, axis, param_values)]
    /\ UNCHANGED <<param_registry, hash_rev, pc, model, js, model2, js2>>

(* The Lambdas of a Model: those of expressions, by axis and impact, and    *)
(* the quantities of the functional units.                                  *)
LambdaRefs(m) ==
    UNION { {<<"expressions", axis, method>> : method \in DOMAIN m.expressions[axis]}
            : axis \in DOMAIN m.expressions }
    \cup {<<"functional_units", key, "quantity">> : key \in DOMAIN m.functional_units}

LambdaAt(m, ref) ==
    IF ref[1] = "expressions" THEN m.expressions[ref[2]][ref[3]]
    ELSE m.functional_units[ref[2]].quantity

(* lambd.evaluate(all_params, param_values) on a Lambda of the Model        *)
LambdaEvaluate ==
    /\ call = NoCall
    /\ model.set
    /\ \E ref \in LambdaRefs(model.m), param_values \in ParamValues :
          call' = [op |-> "Lambda.evaluate", ref |-> ref,
                   param_values |-> param_values,
                   out |-> Lambda_evaluate(LambdaAt(model.m, ref), model.m.params,
                                           param_values)]
    /\ UNCHANGED <<param_registry, hash_rev, pc, model, js, model2, js2>>

(* param.expand_values(value) on a parameter of the Model                   *)
ExpandValues ==
    /\ call = NoCall
    /\ model.set
    /\ \E i \in 1..Len(model.m.params), value \in ExpandInputs :
          call' = [op |-> "expand_values", param |-> model.m.params[i],
                   value |-> value,
                   out |-> expand_values(model.m.params[i], value)]
    /\ UNCHANGED <<param_registry, hash_rev, pc, model, js, model2, js2>>

(* js = serialize_model(model) *)
Serialize ==
    /\ model.set
    /\ ~js.set
    /\ js' = [set |-> TRUE, js |-> serialize_model(model.m)]
    /\ UNCHANGED <<param_registry, hash_rev, pc, model, model2, js2, call>>

(* model2 = Model.from_json(js) *)
FromJson ==
    /\ js.set
    /\ ~model2.set
    /\ Constructed(Model_from_json(js.js))
    /\ model2' = [set |-> TRUE, m |-> Model_from_json(js.js)]
    /\ UNCHANGED <<param_registry, hash_rev, pc, model, js, js2, call>>

(* js2 = serialize_model(model2) *)
SerializeAgain ==
    /\ model2.set
    /\ ~js2.set
    /\ js2' = [set |-> TRUE, js |-> serialize_model(model2.m)]
    /\ UNCHANGED <<param_registry, hash_rev, pc, model, js, model2, call>>

(* The caller takes the outcome: the program is sequential, one call at a  *)
(* time.                                                                    *)
Return ==
    /\ call # NoCall
    /\ call' = NoCall
    /\ UNCHANGED <<param_registry, hash_rev, pc, model, js, model2, js2>>

Next ==
    \/ ExportLca
    \/ ModelEvaluate
    \/ LambdaEvaluate
    \/ ExpandValues
    \/ Serialize
    \/ FromJson
    \/ SerializeAgain
    \/ Return

Spec == Init /\ [][Next]_vars

----------------------------------------------------------------------------
(* Properties *)

(* The Model a Model.evaluate call was made on.                             *)
Target == IF call.target = "model" THEN model.m ELSE model2.m

(* The free symbols of the expression(s) a Lambda holds.                    *)
FreeOf(lam) ==
    IF lam.expr.kind = "dict"
    THEN UNION {free_symbols(lam.expr.d[key]) : key \in DOMAIN lam.expr.d}
    ELSE free_symbols(lam.expr.e)

AllowedValues(param) == {Str(param.values[i]) : i \in 1..Len(param.values)}

C2_MinimalParameterSet ==
    model.set =>
        \A ref \in LambdaRefs(model.m) :
            LET lam == LambdaAt(model.m, ref)
                all_params == model.m.params
            IN /\ Range(lam.params) =
                      {all_params[i].name : i \in
                          {j \in 1..Len(all_params) :
                              Range(expand_names(all_params[j])) \cap FreeOf(lam) # {}}}
               /\ Len(lam.params) = Cardinality(Range(lam.params))

(* Two override mappings agree on a set of keys.                            *)
Agree(pv, other, keys) ==
    \A key \in keys :
        /\ key \in DOMAIN pv <=> key \in DOMAIN other
        /\ key \in DOMAIN pv => pv[key] = other[key]

(* C3. Default fallback and ignored overrides: Lambda.evaluate uses, for    *)
(* each parameter of params and for no other key, the override when there   *)
(* is one and the registry default otherwise; another override mapping that *)
(* agrees on params has the same outcome.                                   *)
C3_DefaultFallback ==
    call.op = "Lambda.evaluate" =>
        LET lam == LambdaAt(model.m, call.ref)
            pv == call.param_values
        IN /\ DOMAIN call.out.values = Range(lam.params)
           /\ \A key \in Range(lam.params) :
                 call.out.values[key] =
                     IF key \in DOMAIN pv THEN pv[key]
                     ELSE ParamByName(model.m.params, key).default
           /\ \A other \in ParamValues :
                 Agree(pv, other, Range(lam.params))
                 => Lambda_evaluate(lam, model.m.params, other) = call.out

(* C3 witness: a successful call whose overrides hold a referenced and an   *)
(* unreferenced parameter.                                                  *)
C3_Witness ==
    /\ call.op = "Lambda.evaluate"
    /\ call.out.status = "ok"
    /\ DOMAIN call.param_values \cap Range(LambdaAt(model.m, call.ref).params) # {}
    /\ DOMAIN call.param_values \ Range(LambdaAt(model.m, call.ref).params) # {}

(* C4. Unknown keys in Model.evaluate: an unknown axis, impact or           *)
(* functional unit makes the call fail with an error listing the valid      *)
(* keys, the axis being checked first (for the axis, the keys of            *)
(* expressions or, as line 198 has it, those of impacts are accepted).      *)
C4_UnknownKeys ==
    call.op = "Model.evaluate" =>
        LET m == Target
            out == call.out
        IN IF call.axis \notin DOMAIN m.expressions
           THEN /\ out.status = "error"
                /\ out.at = "axis"
                /\ out.keys \in {DOMAIN m.expressions, DOMAIN m.impacts}
           ELSE IF call.impact \notin DOMAIN m.expressions[call.axis]
           THEN /\ out.status = "error"
                /\ out.at = "impact"
                /\ out.keys = DOMAIN m.expressions[call.axis]
           ELSE IF call.functional_unit \notin DOMAIN m.functional_units
           THEN /\ out.status = "error"
                /\ out.keys = DOMAIN m.functional_units
           ELSE TRUE

ConfigurationError == [status |-> "error", err |-> "ConfigurationError"]

(* C5. Enum value validation: expand_values on an ENUM parameter with a     *)
(* value outside its allowed values fails with ConfigurationError, and      *)
(* Lambda.evaluate fails when an override gives a referenced ENUM parameter *)
(* such a value.                                                            *)
C5_EnumValueValidation ==
    /\ (/\ call.op = "expand_values"
        /\ call.param.type = ENUM_T
        /\ call.value \notin AllowedValues(call.param))
       => call.out = ConfigurationError
    /\ (/\ call.op = "Lambda.evaluate"
        /\ \E key \in DOMAIN call.param_values
                      \cap Range(LambdaAt(model.m, call.ref).params) :
              /\ ParamByName(model.m.params, key).type = ENUM_T
              /\ call.param_values[key]
                     \notin AllowedValues(ParamByName(model.m.params, key)))
       => call.out.status = "error"

(* C6. Enum expansion exclusivity: expand_values on an ENUM parameter with  *)
(* an allowed value returns the slots of expand_names, 1 in the slot of the *)
(* value and 0 elsewhere, so exactly one 1; on another parameter it returns *)
(* the one entry name: value.                                               *)
C6_EnumExpansionExclusivity ==
    call.op = "expand_values" =>
        LET param == call.param
            out == call.out
        IN IF param.type = ENUM_T
           THEN call.value \in AllowedValues(param) =>
                   /\ DOMAIN out = {param.name \o "_" \o param.values[i] :
                                       i \in 1..Len(param.values)}
                   /\ DOMAIN out = Range(expand_names(param))
                   /\ \A i \in 1..Len(param.values) :
                         out[param.name \o "_" \o param.values[i]] =
                             IF call.value = Str(param.values[i])
                             THEN Num(1) ELSE Num(0)
                   /\ Cardinality({nm \in DOMAIN out : out[nm] = Num(1)}) = 1
           ELSE /\ DOMAIN out = {param.name}
                /\ out[param.name] = call.value

(* C6 witness: an ENUM parameter expanded on its second allowed value.      *)
C6_Witness ==
    /\ call.op = "expand_values"
    /\ call.param.type = ENUM_T
    /\ Len(call.param.values) >= 2
    /\ call.value = Str(call.param.values[2])

(* C7. Unit composition: a successful Model.evaluate returns the impact's   *)
(* unit, followed by "/" and the functional unit's unit when that is not    *)
(* None; the call leaves the Model, and so the Impact's unit, as it was.    *)
C7_UnitComposition ==
    /\ [](call.op = "Model.evaluate" /\ call.out.status = "ok"
          => LET impact_unit == Target.impacts[call.impact].unit
                 fu_unit == Target.functional_units[call.functional_unit].unit
             IN IF fu_unit = None
                THEN call.out.unit = impact_unit
                ELSE call.out.unit = Str(impact_unit.s \o "/" \o fu_unit.s))
    /\ [][(call' # call /\ call'.op = "Model.evaluate")
          => (model' = model /\ model2' = model2)]_vars

(* C7 witness: a successful call on a functional unit whose unit is None.   *)
C7_Witness ==
    /\ call.op = "Model.evaluate"
    /\ call.out.status = "ok"
    /\ Target.functional_units[call.functional_unit].unit = None
    /\ call.out.unit = Str("kg")

(* The signatures of the callable(s) of a Lambda.                           *)
Signatures(lam) ==
    IF lam.lambd.dict
    THEN {lam.lambd.fn[key].args : key \in DOMAIN lam.lambd.fn}
    ELSE {lam.lambd.fn.args}

(* C8. Call-signature agreement: when the overrides of the referenced ENUM  *)
(* parameters are allowed values, the expanded names Lambda.evaluate passes *)
(* are the names each callable was compiled with, and the call does not     *)
(* fail with a TypeError.                                                   *)
C8_CallSignatureAgreement ==
    (/\ call.op = "Lambda.evaluate"
     /\ \A key \in DOMAIN call.param_values
                   \cap Range(LambdaAt(model.m, call.ref).params) :
           ParamByName(model.m.params, key).type = ENUM_T
           => call.param_values[key] \in AllowedValues(ParamByName(model.m.params, key)))
    => /\ \A args \in Signatures(LambdaAt(model.m, call.ref)) :
             DOMAIN call.out.expanded_values = args
       /\ call.out.err # "TypeError"

(* C9. No expanded-name collision: two parameters of the Model share no     *)
(* expanded name, and the merge of Lambda.evaluate leaves in every slot the *)
(* value its parameter's expand_values wrote.                               *)
C9_NoExpandedNameCollision ==
    /\ model.set =>
          \A i, j \in 1..Len(model.m.params) :
              i # j => Range(expand_names(model.m.params[i]))
                       \cap Range(expand_names(model.m.params[j])) = {}
    /\ call.op = "Lambda.evaluate" =>
          \A key \in DOMAIN call.out.values :
              LET written == expand_values(ParamByName(model.m.params, key),
                                           call.out.values[key])
              IN \A slot \in DOMAIN written :
                     call.out.expanded_values[slot] = written[slot]

(* A serialized Model with the params lists of its Lambdas read as sets.    *)
LambdaAsSet(ljs) == [params |-> Range(ljs.params), expr |-> ljs.expr]

ParamsAsSets(mjs) ==
    [params |-> mjs.params,
     expressions |->
        [axis \in DOMAIN mjs.expressions |->
            [method \in DOMAIN mjs.expressions[axis] |->
                LambdaAsSet(mjs.expressions[axis][method])]],
     functional_units |->
        [key \in DOMAIN mjs.functional_units |->
            [quantity |-> LambdaAsSet(mjs.functional_units[key].quantity),
             unit |-> mjs.functional_units[key].unit]],
     impacts |-> mjs.impacts]

(* C10. Structural round trip: serializing the Model read back gives the    *)
(* serialized form it was read from, and every serialized impact has a      *)
(* string name, the one the Impact was constructed with.                    *)
C10_StructuralRoundTrip ==
    /\ js.set =>
          \A key \in DOMAIN js.js.impacts :
              js.js.impacts[key].name = MethodsDict[key].name
    /\ js2.set => ParamsAsSets(js2.js) = ParamsAsSets(js.js)

====
